---- MODULE Spec2Model ----
(***************************************************************************)
(* Shop trading engine of Nebula: POST /api/shop/buy and /api/shop/sell    *)
(* (server/routes.ts) over the in-memory store MemStorage (storage.ts),    *)
(* with POST /api/buildings/:id/collect as the flow that credits coins     *)
(* next to the trades, the listing of the transaction log, and the other   *)
(* routes that write the players, the buildings or the telemetry log       *)
(* (microgames, puzzles, governance, policies, heists, telemetry).         *)
(*                                                                         *)
(* Numbers.  currentPrice can take the value basePrice * 0.5, which is a   *)
(* half for an odd basePrice, and coins then move by halves too.  Every    *)
(* amount of money (basePrice, currentPrice, coins, totalCost,             *)
(* totalRevenue, a transaction's price) is therefore held in HALF-COINS:   *)
(* the stored integer is twice the JavaScript number.  Quantities and      *)
(* stock are plain integers.  priceVolatility is a JavaScript double whose *)
(* value is a quotient of two such amounts; it is held as the exact        *)
(* fraction in lowest terms [num, den].                                    *)
(*                                                                         *)
(* Scheduling.  Every `await storage.x(...)` of a handler is a point where *)
(* another request may run.  The synchronous body of a MemStorage method   *)
(* runs when it is called, so one block of a handler is: the code after    *)
(* the previous await, up to and including the body of the next storage    *)
(* call.  A request's pc names the storage call its next block makes.      *)
(*                                                                         *)
(* History.  base is the store as the first request of a group of          *)
(* overlapping requests found it, a frame's alone tells that nothing else  *)
(* ran between the request's arrival and its response and its wrote that   *)
(* one of its blocks has changed the store, faults counts the storage      *)
(* calls made to reject, successes the trades answered with success: true. *)
(*                                                                         *)
(* Left out: row ids other than the inventory rows' insertion order, the   *)
(* timestamps lastActive, acquiredAt, createdAt and completedAt, the       *)
(* columns description and iconUrl, and the maps no modelled route reads   *)
(* back into the players, buildings or logs (spatialPuzzles,               *)
(* puzzleCompletions, governance, governanceLedger, policies,              *)
(* storyNetVotes, ugcReports).  The transaction records carry their        *)
(* timestamp in the specification of the listing (ListSpec).  A telemetry  *)
(* event carries the timestamp its request's frame holds in now: the       *)
(* reading of the clock, which the runs that read the telemetry log        *)
(* (TownSpec) choose at every block, and which stays 0 in the others.      *)
(***************************************************************************)
EXTENDS Integers, Sequences, FiniteSets, TLC

VARIABLES storage, req, base, faults, successes

vars == <<storage, req, base, faults, successes>>

(* ------------------------------ bounds -------------------------------- *)

\* Cap on the length of the transaction log (successful trades).
MaxTrades == 3

\* Ids a created player can get (randomUUID is modelled by a finite pool).
PlayerIds == {"p1", "p2"}

\* The part of the seeded catalog the model trades on, and an id that is
\* not in the catalog.
ItemIds == {"Apple", "Stone"}

UnknownItem == "none"

\* The (itemId, quantity) pairs a request body carries: quantities below
\* zero, zero, below and above the price step of 10 and above the seeded
\* stock, on a catalog item and on an id that is not in the catalog.
Bodies ==
    {<<"Apple", -100>>, <<"Apple", 0>>, <<"Apple", 3>>, <<"Apple", 20>>,
     <<"Apple", 400>>, <<"Stone", -400>>, <<"Stone", 5>>, <<UnknownItem, 5>>}

\* The (playerId, itemId, quantity) triples of the requests: the first
\* player sends every body, the second player the two that make a second
\* holder of an item.
OtherBodies == {<<"Apple", 3>>, <<"Stone", 5>>}

Trades ==
    {<<"p1", b[1], b[2]>> : b \in Bodies} \cup {<<"p2", b[1], b[2]>> : b \in OtherBodies}

\* Request slots (requests that can be in flight together).
Slots == {1, 2}

\* Cap on the number of storage calls that are made to fail, and on the log
\* length and the request bodies of the runs in which calls fail.
MaxFaults == 1

MaxFaultTrades == 2

FaultBodies == {<<"Apple", 3>>, <<"Apple", 20>>}

\* Cap on the log length, and the request bodies, of the runs in which
\* requests overlap.
MaxConcTrades == 2

ConcBodies == {<<"Apple", 3>>, <<"Apple", 20>>}

\* Where requests of a larger alphabet or failing storage calls are taken
\* too, requests overlap while the log holds fewer than MaxOverlapTrades
\* records, and the bodies of overlapping requests are among OverlapBodies
\* (TripOverlapBodies, ScenarioOverlapBodies).
MaxOverlapTrades == 1

OverlapBodies == {<<"Apple", 3>>}

(* --------------------------- number helpers --------------------------- *)

\* n whole coins in the stored unit (half-coins).
Units(n) == 2 * n

Abs(x) == IF x < 0 THEN -x ELSE x

Max(a, b) == IF a >= b THEN a ELSE b

RECURSIVE Gcd(_, _)
Gcd(a, b) == IF b = 0 THEN a ELSE Gcd(b, a % b)

\* The double n / d (d > 0), as a fraction in lowest terms.
Ratio(n, d) ==
    LET g == Gcd(Abs(n), d)
    IN  [num |-> n \div g, den |-> d \div g]

(* --------------------------- program constants ------------------------ *)

\* createPlayer: coins: 1000
StartingCoins == 1000

\* const rewardAmount = 100 * building.level
CollectRewardPerLevel == 100

\* Math.floor(quantity / 10)
PriceStepDivisor == 10

\* Math.abs(item.priceVolatility) > 0.25, as 1 / 4
BreakerDen == 4

\* basePrice * 0.5, as 1 / 2
FloorDen == 2

\* currentPrice * quantity * 0.8, as 4 / 5
SpreadNum == 4

SpreadDen == 5

\* coins: player.coins + 75
PuzzleReward == 75

\* game.plays >= 200
QuarantinePlays == 200

\* limit: number = 1000
TelemetryLimit == 1000

(* ------------------------------ MemStorage ---------------------------- *)

\* initializeShopItems: the seeded rows of the items in ItemIds.
DefaultItems ==
    [i \in ItemIds |->
        IF i = "Apple"
        THEN [name |-> "Apple", category |-> "resource",
              basePrice |-> Units(10), currentPrice |-> Units(12),
              stock |-> 200, priceVolatility |-> Ratio(20, 100)]
        ELSE [name |-> "Stone", category |-> "resource",
              basePrice |-> Units(75), currentPrice |-> Units(70),
              stock |-> 120, priceVolatility |-> Ratio(-7, 100)]]

\* new MemStorage(): empty maps and logs, the seeded catalog.
NewMemStorage ==
    [players |-> << >>,
     buildings |-> << >>,
     shopItems |-> DefaultItems,
     inventory |-> << >>,
     microgames |-> << >>,
     heists |-> << >>,
     transactions |-> << >>,
     telemetryEvents |-> << >>]

\* The value `undefined` of a Map.get / Array.find that finds nothing.
Undefined == [undefined |-> TRUE]

\* getPlayer: this.players.get(id)
getPlayer(s, id) ==
    IF id \in DOMAIN s.players THEN s.players[id] ELSE Undefined

\* createPlayer: a new row with coins 1000 under a fresh id.
createPlayer(s, id) ==
    [s EXCEPT !.players =
        [p \in DOMAIN s.players \cup {id} |->
            IF p = id THEN [coins |-> Units(StartingCoins)] ELSE s.players[p]]]

\* updatePlayer: { ...player, ...updates } when the player exists.
updatePlayer(s, id, coins) ==
    IF id \in DOMAIN s.players
    THEN [s EXCEPT !.players[id].coins = coins]
    ELSE s

\* getBuilding: this.buildings.get(id)
getBuilding(s, id) ==
    IF id \in DOMAIN s.buildings THEN s.buildings[id] ELSE Undefined

\* createBuilding: a new row of the player's, never collected, under a
\* fresh id.
createBuilding(s, id, playerId, level) ==
    [s EXCEPT !.buildings =
        [b \in DOMAIN s.buildings \cup {id} |->
            IF b = id
            THEN [playerId |-> playerId, level |-> level,
                  lastCollectedAt |-> "null"]
            ELSE s.buildings[b]]]

\* { ...row, ...updates }
Spread(row, updates) ==
    [f \in DOMAIN row \cup DOMAIN updates |->
        IF f \in DOMAIN updates THEN updates[f] ELSE row[f]]

\* updateBuilding: { ...building, ...updates } when the building exists.
updateBuilding(s, id, updates) ==
    IF id \in DOMAIN s.buildings
    THEN [s EXCEPT !.buildings[id] = Spread(@, updates)]
    ELSE s

\* getShopItem: this.shopItems.get(id)
getShopItem(s, id) ==
    IF id \in DOMAIN s.shopItems THEN s.shopItems[id] ELSE Undefined

\* Mutant: the update is written to every row of the catalog.
updateShopItem_AllItems(s, id, stock, currentPrice, priceVolatility) ==
    IF id \in DOMAIN s.shopItems
    THEN [s EXCEPT !.shopItems =
            [i \in DOMAIN s.shopItems |->
                [s.shopItems[i] EXCEPT !.stock = stock,
                                       !.currentPrice = currentPrice,
                                       !.priceVolatility = priceVolatility]]]
    ELSE s

\* updateShopItem: { ...item, ...updates } when the item exists.
updateShopItem(s, id, stock, currentPrice, priceVolatility) ==
    IF id \in DOMAIN s.shopItems
    THEN [s EXCEPT !.shopItems[id] =
            [@ EXCEPT !.stock = stock,
                      !.currentPrice = currentPrice,
                      !.priceVolatility = priceVolatility]]
    ELSE s

\* Positions of the inventory rows of (playerId, itemId), in insertion order.
InventoryMatches(s, playerId, itemId) ==
    {k \in 1..Len(s.inventory) :
        s.inventory[k].playerId = playerId /\ s.inventory[k].itemId = itemId}

\* getInventoryItem: the first row of the pair in Map order, with its id
\* (the row's position: rows are never deleted).
getInventoryItem(s, playerId, itemId) ==
    LET m == InventoryMatches(s, playerId, itemId)
    IN  IF m = {} THEN Undefined
        ELSE LET k == CHOOSE a \in m : \A b \in m : a <= b
             IN  [id |-> k, quantity |-> s.inventory[k].quantity]

\* updateInventory after its await: `existing` is the row read before it.
updateInventoryWrite(s, existing, playerId, itemId, quantity) ==
    IF existing # Undefined
    THEN [s EXCEPT !.inventory[existing.id] =
            [playerId |-> playerId, itemId |-> itemId,
             quantity |-> existing.quantity + quantity]]
    ELSE [s EXCEPT !.inventory =
            Append(@, [playerId |-> playerId, itemId |-> itemId,
                       quantity |-> quantity])]

\* createTransaction: this.transactions.push(...)
createTransaction(s, playerId, itemId, type, quantity, price) ==
    [s EXCEPT !.transactions =
        Append(@, [playerId |-> playerId, itemId |-> itemId, type |-> type,
                   quantity |-> quantity, price |-> price])]

\* createTelemetryEvent: this.telemetryEvents.push({ id, ...event,
\* timestamp: new Date() })
createTelemetryEvent(s, playerId, eventType, metadata, timestamp) ==
    [s EXCEPT !.telemetryEvents =
        Append(@, [playerId |-> playerId, eventType |-> eventType,
                   metadata |-> metadata, timestamp |-> timestamp])]

\* One step of the stable sort with the comparator
\* (a, b) => b.timestamp.getTime() - a.timestamp.getTime(): x, which came
\* after the elements of sorted, goes behind those that are not older.
InsertNewestFirst(sorted, x) ==
    LET k == Cardinality({j \in 1..Len(sorted) :
                             sorted[j].timestamp >= x.timestamp})
    IN  SubSeq(sorted, 1, k) \o <<x>> \o SubSeq(sorted, k + 1, Len(sorted))

\* Array.prototype.sort with that comparator (stable).
RECURSIVE SortNewestFirst(_)
SortNewestFirst(seq) ==
    IF seq = << >> THEN << >>
    ELSE InsertNewestFirst(SortNewestFirst(SubSeq(seq, 1, Len(seq) - 1)),
                           seq[Len(seq)])

\* Array.prototype.slice(0, end): a negative end counts from the back.
Slice(seq, end) ==
    LET to == IF end < 0 THEN Max(Len(seq) + end, 0)
              ELSE IF end > Len(seq) THEN Len(seq) ELSE end
    IN  SubSeq(seq, 1, to)

\* getTelemetryEvents(eventType, limit).  eventType is the argument as a
\* string, "" when it is left out: `if (eventType)` takes undefined and ""
\* alike.  sort() sorts the array it is called on, which is the stored log
\* itself when eventType is falsy and the copy that filter has made
\* otherwise.
getTelemetryEvents(s, eventType, limit) ==
    LET OfType(e) == e.eventType = eventType
    IN  IF eventType = ""
        THEN [storage |-> [s EXCEPT !.telemetryEvents = SortNewestFirst(@)],
              result |-> Slice(SortNewestFirst(s.telemetryEvents), limit)]
        ELSE [storage |-> s,
              result |-> Slice(SortNewestFirst(SelectSeq(s.telemetryEvents, OfType)),
                               limit)]

\* getMicrogame: this.microgames.get(id)
getMicrogame(s, id) ==
    IF id \in DOMAIN s.microgames THEN s.microgames[id] ELSE Undefined

\* createMicrogame: a new row, quarantined, never played or shared, under a
\* fresh id.
createMicrogame(s, id) ==
    [s EXCEPT !.microgames =
        [g \in DOMAIN s.microgames \cup {id} |->
            IF g = id
            THEN [quarantined |-> TRUE, plays |-> 0, shares |-> 0]
            ELSE s.microgames[g]]]

\* updateMicrogame: { ...game, ...updates } when the game exists.
updateMicrogame(s, id, updates) ==
    IF id \in DOMAIN s.microgames
    THEN [s EXCEPT !.microgames[id] = Spread(@, updates)]
    ELSE s

\* incrementMicrogamePlays: plays + 1 when the game exists; a quarantined
\* game leaves quarantine at 200 plays.
incrementMicrogamePlays(s, id) ==
    IF id \in DOMAIN s.microgames
    THEN LET game == s.microgames[id]
         IN  [s EXCEPT !.microgames[id] =
                 [game EXCEPT !.plays = game.plays + 1,
                              !.quarantined =
                                  IF game.quarantined
                                        /\ game.plays + 1 >= QuarantinePlays
                                  THEN FALSE ELSE game.quarantined]]
    ELSE s

\* incrementMicrogameShares: shares + 1 when the game exists.
incrementMicrogameShares(s, id) ==
    IF id \in DOMAIN s.microgames
    THEN [s EXCEPT !.microgames[id].shares = @ + 1]
    ELSE s

\* getHeist: this.heists.get(id)
getHeist(s, id) ==
    IF id \in DOMAIN s.heists THEN s.heists[id] ELSE Undefined

\* createHeist: a new row in status "planning" under a fresh id.
createHeist(s, id, leaderId, reward) ==
    [s EXCEPT !.heists =
        [h \in DOMAIN s.heists \cup {id} |->
            IF h = id
            THEN [leaderId |-> leaderId, reward |-> reward,
                  status |-> "planning"]
            ELSE s.heists[h]]]

\* updateHeist: { ...heist, ...updates } when the heist exists.
updateHeist(s, id, updates) ==
    IF id \in DOMAIN s.heists
    THEN [s EXCEPT !.heists[id] = Spread(@, updates)]
    ELSE s

(* ------------------------- pricing expressions ------------------------ *)

\* Mutant: the breaker compares the signed volatility (Math.abs forgotten).
Frozen_NoAbs(item) ==
    item.priceVolatility.num * BreakerDen > item.priceVolatility.den

\* Math.abs(item.priceVolatility) > 0.25
Frozen(item) ==
    Abs(item.priceVolatility.num) * BreakerDen > item.priceVolatility.den

\* item.currentPrice * quantity
TotalCost(item, quantity) == item.currentPrice * quantity

\* Mutant: the seller is paid the full quoted price (no 20% spread).
TotalRevenue_NoSpread(item, quantity) == item.currentPrice * quantity

\* Math.floor(item.currentPrice * quantity * 0.8)
TotalRevenue(item, quantity) ==
    Units((item.currentPrice * quantity * SpreadNum) \div (SpreadDen * Units(1)))

\* item.basePrice * 0.5
PriceFloor(item) == item.basePrice \div FloorDen

\* Mutant: Math.round(quantity / 10) in place of Math.floor.
PriceStep_Round(quantity) ==
    Units((2 * quantity + PriceStepDivisor) \div (2 * PriceStepDivisor))

\* Math.floor(quantity / 10)
PriceStep(quantity) == Units(quantity \div PriceStepDivisor)

\* Mutant: the new price of a buy is not clamped to the floor.
BuyPrice_NoFloor(item, quantity) == item.currentPrice + PriceStep(quantity)

\* Math.max(item.basePrice * 0.5, item.currentPrice + Math.floor(quantity / 10))
BuyPrice(item, quantity) ==
    Max(PriceFloor(item), item.currentPrice + PriceStep(quantity))

\* Math.max(item.basePrice * 0.5, item.currentPrice - Math.floor(quantity / 10))
SellPrice(item, quantity) ==
    Max(PriceFloor(item), item.currentPrice - PriceStep(quantity))

\* (item.currentPrice - item.basePrice) / item.basePrice, of the item as the
\* handler read it
Volatility(item) ==
    Ratio(item.currentPrice - item.basePrice, item.basePrice)

(* ------------------------------ requests ------------------------------ *)

\* The storage calls of the two handlers, in the order buy makes them.
Calls ==
    {"getPlayer", "getShopItem", "getInventoryItem", "updatePlayer",
     "updateShopItem", "updateInventory", "createTransaction",
     "createTelemetryEvent"}

NoFault == "none"

\* res.status(...).json(...) of the handlers.
Success(amount) == [status |-> 200, kind |-> "Success", amount |-> amount]

NotFound == [status |-> 404, kind |-> "NotFound", amount |-> 0]

MarketFrozen == [status |-> 403, kind |-> "MarketFrozen", amount |-> 0]

InsufficientFunds == [status |-> 400, kind |-> "InsufficientFunds", amount |-> 0]

InsufficientStock == [status |-> 400, kind |-> "InsufficientStock", amount |-> 0]

InsufficientInventory ==
    [status |-> 400, kind |-> "InsufficientInventory", amount |-> 0]

InternalError == [status |-> 500, kind |-> "InternalError", amount |-> 0]

\* A slot with no request.
IdleRequest ==
    [kind |-> "none", playerId |-> "", itemId |-> "", quantity |-> 0,
     buildingId |-> "", building |-> Undefined, level |-> 0, limit |-> 0,
     id |-> "", success |-> FALSE, reward |-> 0, game |-> Undefined,
     heist |-> Undefined, now |-> 0,
     alone |-> TRUE, wrote |-> FALSE, failAt |-> NoFault, pc |-> "idle", player |-> Undefined,
     item |-> Undefined, inventoryItem |-> Undefined, existing |-> Undefined,
     response |-> Undefined]

\* The handler's frame when the request arrives: const { playerId, itemId,
\* quantity } = req.body.  failAt is the storage call that rejects, if any.
NewRequest(kind, playerId, itemId, quantity, failAt) ==
    [IdleRequest EXCEPT !.kind = kind, !.playerId = playerId,
                        !.itemId = itemId, !.quantity = quantity,
                        !.failAt = failAt, !.pc = "getPlayer"]

\* The handler ends with a response.
Respond(s, l, response) ==
    [storage |-> s, req |-> [l EXCEPT !.pc = "done", !.response = response]]

\* The awaited storage call rejects: the handler's catch clause runs next,
\* after whatever else is ready to run.
Reject(s, l) == [storage |-> s, req |-> [l EXCEPT !.pc = "catch"]]

\* catch (error) { res.status(500).json({ error: "Internal server error" }) }
CatchBlock(s, l) == Respond(s, l, InternalError)

\* The handler goes on to its next storage call.
Goto(s, l, pc) == [storage |-> s, req |-> [l EXCEPT !.pc = pc]]

\* const player = await storage.getPlayer(playerId)
GetPlayerBlock(s, l) ==
    IF l.failAt = "getPlayer" THEN Reject(s, l)
    ELSE Goto(s, [l EXCEPT !.player = getPlayer(s, l.playerId)], "getShopItem")

\* const item = await storage.getShopItem(itemId)
GetShopItemBlock(s, l) ==
    IF l.failAt = "getShopItem" THEN Reject(s, l)
    ELSE Goto(s, [l EXCEPT !.item = getShopItem(s, l.itemId)],
              IF l.kind = "sell" THEN "getInventoryItem" ELSE "updatePlayer")

\* const inventoryItem = await storage.getInventoryItem(playerId, itemId)
GetInventoryItemBlock(s, l) ==
    IF l.failAt = "getInventoryItem" THEN Reject(s, l)
    ELSE Goto(s, [l EXCEPT !.inventoryItem =
                     getInventoryItem(s, l.playerId, l.itemId)],
              "updatePlayer")

\* Mutant: buy does not compare the stock with the quantity.
BuyUpdatePlayerBlock_NoStockCheck(s, l) ==
    IF l.player = Undefined \/ l.item = Undefined THEN Respond(s, l, NotFound)
    ELSE IF Frozen(l.item) THEN Respond(s, l, MarketFrozen)
    ELSE IF l.player.coins < TotalCost(l.item, l.quantity)
         THEN Respond(s, l, InsufficientFunds)
    ELSE IF l.failAt = "updatePlayer" THEN Reject(s, l)
    ELSE Goto(updatePlayer(s, l.playerId,
                           l.player.coins - TotalCost(l.item, l.quantity)),
              l, "updateShopItem")

\* Mutant: buy compares the coins with the cost before it looks at the
\* volatility.
BuyUpdatePlayerBlock_FundsFirst(s, l) ==
    IF l.player = Undefined \/ l.item = Undefined THEN Respond(s, l, NotFound)
    ELSE IF l.player.coins < TotalCost(l.item, l.quantity)
         THEN Respond(s, l, InsufficientFunds)
    ELSE IF Frozen(l.item) THEN Respond(s, l, MarketFrozen)
    ELSE IF l.item.stock < l.quantity THEN Respond(s, l, InsufficientStock)
    ELSE IF l.failAt = "updatePlayer" THEN Reject(s, l)
    ELSE Goto(updatePlayer(s, l.playerId,
                           l.player.coins - TotalCost(l.item, l.quantity)),
              l, "updateShopItem")

\* buy: the checks, then storage.updatePlayer(playerId, { coins: player.coins - totalCost })
BuyUpdatePlayerBlock(s, l) ==
    IF l.player = Undefined \/ l.item = Undefined THEN Respond(s, l, NotFound)
    ELSE IF Frozen(l.item) THEN Respond(s, l, MarketFrozen)
    ELSE IF l.player.coins < TotalCost(l.item, l.quantity)
         THEN Respond(s, l, InsufficientFunds)
    ELSE IF l.item.stock < l.quantity THEN Respond(s, l, InsufficientStock)
    ELSE IF l.failAt = "updatePlayer" THEN Reject(s, l)
    ELSE Goto(updatePlayer(s, l.playerId,
                           l.player.coins - TotalCost(l.item, l.quantity)),
              l, "updateShopItem")

\* Mutant: sell credits the player before it checks the held quantity.
SellUpdatePlayerBlock_CreditFirst(s, l) ==
    IF l.player = Undefined \/ l.item = Undefined \/ l.inventoryItem = Undefined
    THEN Respond(s, l, NotFound)
    ELSE IF l.inventoryItem.quantity < l.quantity
         THEN Respond(updatePlayer(s, l.playerId,
                                   l.player.coins + TotalRevenue(l.item, l.quantity)),
                      l, InsufficientInventory)
    ELSE IF l.failAt = "updatePlayer" THEN Reject(s, l)
    ELSE Goto(updatePlayer(s, l.playerId,
                           l.player.coins + TotalRevenue(l.item, l.quantity)),
              l, "updateShopItem")

\* Mutant: sell refuses a frozen item as buy does.
SellUpdatePlayerBlock_Breaker(s, l) ==
    IF l.player = Undefined \/ l.item = Undefined \/ l.inventoryItem = Undefined
    THEN Respond(s, l, NotFound)
    ELSE IF Frozen(l.item) THEN Respond(s, l, MarketFrozen)
    ELSE IF l.inventoryItem.quantity < l.quantity
         THEN Respond(s, l, InsufficientInventory)
    ELSE IF l.failAt = "updatePlayer" THEN Reject(s, l)
    ELSE Goto(updatePlayer(s, l.playerId,
                           l.player.coins + TotalRevenue(l.item, l.quantity)),
              l, "updateShopItem")

\* sell: the checks, then storage.updatePlayer(playerId, { coins: player.coins + totalRevenue })
SellUpdatePlayerBlock(s, l) ==
    IF l.player = Undefined \/ l.item = Undefined \/ l.inventoryItem = Undefined
    THEN Respond(s, l, NotFound)
    ELSE IF l.inventoryItem.quantity < l.quantity
         THEN Respond(s, l, InsufficientInventory)
    ELSE IF l.failAt = "updatePlayer" THEN Reject(s, l)
    ELSE Goto(updatePlayer(s, l.playerId,
                           l.player.coins + TotalRevenue(l.item, l.quantity)),
              l, "updateShopItem")

\* storage.updateShopItem(itemId, { stock, currentPrice, priceVolatility })
UpdateShopItemBlock(s, l) ==
    IF l.failAt = "updateShopItem" THEN Reject(s, l)
    ELSE IF l.kind = "buy"
    THEN Goto(updateShopItem(s, l.itemId, l.item.stock - l.quantity,
                             BuyPrice(l.item, l.quantity), Volatility(l.item)),
              l, "updateInventory")
    ELSE Goto(updateShopItem(s, l.itemId, l.item.stock + l.quantity,
                             SellPrice(l.item, l.quantity), Volatility(l.item)),
              l, "updateInventory")

\* storage.updateInventory(...) up to its own await:
\* const existing = await this.getInventoryItem(playerId, itemId); a
\* rejection of that call rejects updateInventory.
UpdateInventoryBlock(s, l) ==
    IF l.failAt \in {"updateInventory", "getInventoryItem"} THEN Reject(s, l)
    ELSE Goto(s, [l EXCEPT !.existing =
                     getInventoryItem(s, l.playerId, l.itemId)],
              "updateInventoryWrite")

\* updateInventory after its await: quantity for a buy, -quantity for a sell.
UpdateInventoryWriteBlock(s, l) ==
    Goto(updateInventoryWrite(s, l.existing, l.playerId, l.itemId,
                              IF l.kind = "buy" THEN l.quantity ELSE -l.quantity),
         l, "createTransaction")

\* Mutant: the record carries the item's price as it is in the store when
\* the record is written (after the item update).
CreateTransactionBlock_StoredPrice(s, l) ==
    IF l.failAt = "createTransaction" THEN Reject(s, l)
    ELSE Goto(createTransaction(s, l.playerId, l.itemId, l.kind, l.quantity,
                                s.shopItems[l.itemId].currentPrice),
              l, IF l.kind = "buy" THEN "createTelemetryEvent" ELSE "respond")

\* storage.createTransaction({ ..., price: item.currentPrice, ... })
CreateTransactionBlock(s, l) ==
    IF l.failAt = "createTransaction" THEN Reject(s, l)
    ELSE Goto(createTransaction(s, l.playerId, l.itemId, l.kind, l.quantity,
                                l.item.currentPrice),
              l, IF l.kind = "buy" THEN "createTelemetryEvent" ELSE "respond")

\* buy: storage.createTelemetryEvent({ eventType: "shop_purchase", ... })
CreateTelemetryEventBlock(s, l) ==
    IF l.failAt = "createTelemetryEvent" THEN Reject(s, l)
    ELSE Goto(createTelemetryEvent(s, l.playerId, "shop_purchase",
                                   [itemId |-> l.itemId, quantity |-> l.quantity,
                                    totalCost |-> TotalCost(l.item, l.quantity)],
                                   l.now),
              l, "respond")

\* res.json({ success: true, coinsSpent: totalCost }) / coinsEarned: totalRevenue
RespondBlock(s, l) ==
    Respond(s, l, Success(IF l.kind = "buy"
                          THEN TotalCost(l.item, l.quantity)
                          ELSE TotalRevenue(l.item, l.quantity)))

(* ---------------- POST /api/buildings/:id/collect -------------------- *)

\* res.json({ collected: rewardAmount }) and the 404s of collect.
Collected(amount) == [status |-> 200, kind |-> "Collected", amount |-> amount]

BuildingNotFound == [status |-> 404, kind |-> "BuildingNotFound", amount |-> 0]

PlayerNotFound == [status |-> 404, kind |-> "PlayerNotFound", amount |-> 0]

\* The collect handler's frame when the request arrives (req.params.id).
NewCollectRequest(buildingId) ==
    [IdleRequest EXCEPT !.kind = "collect", !.buildingId = buildingId,
                        !.pc = "getBuilding"]

\* 100 * building.level
RewardAmount(building) == Units(CollectRewardPerLevel * building.level)

\* const building = await storage.getBuilding(req.params.id)
GetBuildingBlock(s, l) ==
    Goto(s, [l EXCEPT !.building = getBuilding(s, l.buildingId)], "getPlayer")

\* collect: the building check, then
\* const player = await storage.getPlayer(building.playerId)
CollectGetPlayerBlock(s, l) ==
    IF l.building = Undefined THEN Respond(s, l, BuildingNotFound)
    ELSE Goto(s, [l EXCEPT !.playerId = l.building.playerId,
                           !.player = getPlayer(s, l.building.playerId)],
              "updatePlayer")

\* collect: the player check, then
\* storage.updatePlayer(player.id, { coins: player.coins + rewardAmount })
CollectUpdatePlayerBlock(s, l) ==
    IF l.player = Undefined THEN Respond(s, l, PlayerNotFound)
    ELSE Goto(updatePlayer(s, l.playerId,
                           l.player.coins + RewardAmount(l.building)),
              l, "updateBuilding")

\* storage.updateBuilding(req.params.id, { lastCollectedAt: new Date() })
UpdateBuildingBlock(s, l) ==
    Goto(updateBuilding(s, l.buildingId, [lastCollectedAt |-> "new Date()"]),
         l, "respond")

\* res.json({ collected: rewardAmount })
CollectRespondBlock(s, l) == Respond(s, l, Collected(RewardAmount(l.building)))

(* ------------------------- POST /api/buildings ----------------------- *)

\* res.status(201).json(building)
Placed == [status |-> 201, kind |-> "Placed", amount |-> 0]

\* The handler's frame when the request arrives (validatedData).
NewPlaceRequest(buildingId, playerId, level) ==
    [IdleRequest EXCEPT !.kind = "place", !.buildingId = buildingId,
                        !.playerId = playerId, !.level = level,
                        !.pc = "createBuilding"]

\* const building = await storage.createBuilding(validatedData)
CreateBuildingBlock(s, l) ==
    Goto(createBuilding(s, l.buildingId, l.playerId, l.level), l,
         "createTelemetryEvent")

\* await storage.createTelemetryEvent({ playerId, eventType:
\* "building_placed", ... })
PlaceTelemetryBlock(s, l) ==
    Goto(createTelemetryEvent(s, l.playerId, "building_placed", << >>, l.now),
         l, "respond")

PlaceRespondBlock(s, l) == Respond(s, l, Placed)

(* ------------- routes that write players or telemetry too ------------- *)

\* The requests of the microgame, puzzle, governance, policy and heist
\* routes that write a telemetry event.
TownKinds ==
    {"createMicrogame", "play", "share", "createPuzzle", "completePuzzle",
     "mayor", "vote", "createHeist", "completeHeist"}

\* res.status(201).json(...) of the POSTs that create a row, and
\* res.json({ success: true }).
Created == [status |-> 201, kind |-> "Created", amount |-> 0]

Ok == [status |-> 200, kind |-> "Ok", amount |-> 0]

\* res.json({ success: true, reward })
Rewarded(amount) == [status |-> 200, kind |-> "Rewarded", amount |-> amount]

MicrogameNotFound == [status |-> 404, kind |-> "MicrogameNotFound", amount |-> 0]

QuarantineLimit == [status |-> 403, kind |-> "QuarantineLimit", amount |-> 0]

HeistNotFound == [status |-> 404, kind |-> "HeistNotFound", amount |-> 0]

\* The frame of one of these requests when it arrives: req.params.id (the
\* fresh id of a row to create) and the player the body names; pc is the
\* handler's first storage call.
NewTownRequest(kind, id, playerId, pc) ==
    [IdleRequest EXCEPT !.kind = kind, !.id = id, !.playerId = playerId,
                        !.pc = pc]

\* The event a handler hands to createTelemetryEvent: playerId, eventType
\* and metadata.
TownEvent(l) ==
    CASE l.kind = "createMicrogame" ->
            [playerId |-> l.playerId, eventType |-> "microgame_created",
             metadata |-> [gameId |-> l.id]]
      [] l.kind = "play" ->
            [playerId |-> l.playerId, eventType |-> "microgame_play",
             metadata |-> [gameId |-> l.id]]
      [] l.kind = "share" ->
            [playerId |-> l.playerId, eventType |-> "microgame_share",
             metadata |-> [gameId |-> l.id]]
      [] l.kind = "createPuzzle" ->
            [playerId |-> l.playerId, eventType |-> "puzzle_created",
             metadata |-> [puzzleId |-> l.id]]
      [] l.kind = "completePuzzle" ->
            [playerId |-> l.playerId, eventType |-> "puzzle_completed",
             metadata |-> [puzzleId |-> l.id]]
      [] l.kind = "mayor" ->
            [playerId |-> l.playerId, eventType |-> "mayor_elected",
             metadata |-> [mayorId |-> l.playerId]]
      [] l.kind = "vote" ->
            [playerId |-> l.playerId, eventType |-> "policy_vote",
             metadata |-> [policyId |-> l.id, vote |-> l.success]]
      [] l.kind = "createHeist" ->
            [playerId |-> l.playerId, eventType |-> "heist_planned",
             metadata |-> [heistId |-> l.id]]
      [] l.kind = "completeHeist" ->
            [playerId |-> l.heist.leaderId, eventType |-> "heist_completed",
             metadata |-> [heistId |-> l.id, success |-> l.success,
                           reward |-> IF l.success THEN l.heist.reward ELSE 0]]

\* await storage.createTelemetryEvent({ playerId, eventType, metadata })
TownTelemetryBlock(s, l) ==
    LET e == TownEvent(l)
    IN  Goto(createTelemetryEvent(s, e.playerId, e.eventType, e.metadata, l.now),
             l, "respond")

\* The handler's last line: res.status(201).json(row), res.json({ success:
\* true }) or res.json({ success: true, reward }).
TownRespondBlock(s, l) ==
    Respond(s, l,
            CASE l.kind \in {"createMicrogame", "createPuzzle", "createHeist"} -> Created
              [] l.kind \in {"play", "share", "mayor", "vote"} -> Ok
              [] l.kind = "completePuzzle" -> Rewarded(Units(PuzzleReward))
              [] l.kind = "completeHeist" ->
                    Rewarded(IF l.success THEN l.heist.reward ELSE 0))

\* POST /api/microgames: const game = await storage.createMicrogame(validatedData)
CreateMicrogameBlock(s, l) ==
    Goto(createMicrogame(s, l.id), l, "createTelemetryEvent")

\* POST /api/microgames/:id/play: const game = await storage.getMicrogame(req.params.id)
GetMicrogameBlock(s, l) ==
    Goto(s, [l EXCEPT !.game = getMicrogame(s, l.id)], "incrementMicrogamePlays")

\* play: the checks, then storage.incrementMicrogamePlays(req.params.id)
IncrementMicrogamePlaysBlock(s, l) ==
    IF l.game = Undefined THEN Respond(s, l, MicrogameNotFound)
    ELSE IF l.game.quarantined /\ l.game.plays >= QuarantinePlays
         THEN Respond(s, l, QuarantineLimit)
    ELSE Goto(incrementMicrogamePlays(s, l.id), l, "createTelemetryEvent")

\* POST /api/microgames/:id/share: await storage.incrementMicrogameShares(req.params.id)
IncrementMicrogameSharesBlock(s, l) ==
    Goto(incrementMicrogameShares(s, l.id), l, "createTelemetryEvent")

\* POST /api/puzzles: await storage.createPuzzle(validatedData), which writes
\* spatialPuzzles only.
CreatePuzzleBlock(s, l) == Goto(s, l, "createTelemetryEvent")

\* POST /api/puzzles/:id/complete: await storage.completePuzzle(req.params.id,
\* playerId), which writes spatialPuzzles and puzzleCompletions only.
CompletePuzzleBlock(s, l) == Goto(s, l, "getPlayer")

\* complete: const player = await storage.getPlayer(playerId)
PuzzleGetPlayerBlock(s, l) ==
    Goto(s, [l EXCEPT !.player = getPlayer(s, l.playerId)], "updatePlayer")

\* complete: if (player) storage.updatePlayer(playerId, { coins: player.coins
\* + 75 }); with no player the handler goes on to createTelemetryEvent.
PuzzleUpdatePlayerBlock(s, l) ==
    IF l.player # Undefined
    THEN Goto(updatePlayer(s, l.playerId, l.player.coins + Units(PuzzleReward)),
              l, "createTelemetryEvent")
    ELSE TownTelemetryBlock(s, l)

\* POST /api/governance/mayor: await storage.updateGovernance({ mayorId }),
\* which writes governance only.
UpdateGovernanceBlock(s, l) == Goto(s, l, "createGovernanceLedger")

\* mayor: await storage.createGovernanceLedger(...), which writes
\* governanceLedger only.
CreateGovernanceLedgerBlock(s, l) == Goto(s, l, "createTelemetryEvent")

\* POST /api/policies/:id/vote: await storage.voteOnPolicy(...), which writes
\* storyNetVotes and policies only.
VoteOnPolicyBlock(s, l) == Goto(s, l, "createTelemetryEvent")

\* POST /api/heists: const heist = await storage.createHeist(validatedData)
CreateHeistBlock(s, l) ==
    Goto(createHeist(s, l.id, l.playerId, l.reward), l, "createTelemetryEvent")

\* POST /api/heists/:id/complete: const heist = await storage.getHeist(req.params.id)
GetHeistBlock(s, l) ==
    Goto(s, [l EXCEPT !.heist = getHeist(s, l.id)], "getPlayer")

\* complete: storage.updateHeist(req.params.id, { status: success ?
\* "completed" : "failed", completedAt: new Date() })
UpdateHeistBlock(s, l) ==
    Goto(updateHeist(s, l.id,
                     [status |-> IF l.success THEN "completed" ELSE "failed"]),
         l, "createTelemetryEvent")

\* complete: if (player) storage.updatePlayer(heist.leaderId, { coins:
\* player.coins + heist.reward }); with no player the handler goes on to
\* updateHeist.
HeistUpdatePlayerBlock(s, l) ==
    IF l.player # Undefined
    THEN Goto(updatePlayer(s, l.heist.leaderId, l.player.coins + l.heist.reward),
              l, "updateHeist")
    ELSE UpdateHeistBlock(s, l)

\* complete: the 404 of a missing heist; if (success) const player = await
\* storage.getPlayer(heist.leaderId); with success false the handler goes on
\* to updateHeist.
HeistGetPlayerBlock(s, l) ==
    IF l.heist = Undefined THEN Respond(s, l, HeistNotFound)
    ELSE IF l.success
         THEN Goto(s, [l EXCEPT !.player = getPlayer(s, l.heist.leaderId)],
                   "updatePlayer")
    ELSE UpdateHeistBlock(s, l)

\* The next block of a request of TownKinds.
TownStep(s, l) ==
    CASE l.pc = "createTelemetryEvent" -> TownTelemetryBlock(s, l)
      [] l.pc = "respond" -> TownRespondBlock(s, l)
      [] l.pc = "createMicrogame" -> CreateMicrogameBlock(s, l)
      [] l.pc = "getMicrogame" -> GetMicrogameBlock(s, l)
      [] l.pc = "incrementMicrogamePlays" -> IncrementMicrogamePlaysBlock(s, l)
      [] l.pc = "incrementMicrogameShares" -> IncrementMicrogameSharesBlock(s, l)
      [] l.pc = "createPuzzle" -> CreatePuzzleBlock(s, l)
      [] l.pc = "completePuzzle" -> CompletePuzzleBlock(s, l)
      [] l.pc = "getPlayer" /\ l.kind = "completePuzzle" -> PuzzleGetPlayerBlock(s, l)
      [] l.pc = "updatePlayer" /\ l.kind = "completePuzzle" -> PuzzleUpdatePlayerBlock(s, l)
      [] l.pc = "updateGovernance" -> UpdateGovernanceBlock(s, l)
      [] l.pc = "createGovernanceLedger" -> CreateGovernanceLedgerBlock(s, l)
      [] l.pc = "voteOnPolicy" -> VoteOnPolicyBlock(s, l)
      [] l.pc = "createHeist" -> CreateHeistBlock(s, l)
      [] l.pc = "getHeist" -> GetHeistBlock(s, l)
      [] l.pc = "getPlayer" /\ l.kind = "completeHeist" -> HeistGetPlayerBlock(s, l)
      [] l.pc = "updatePlayer" /\ l.kind = "completeHeist" -> HeistUpdatePlayerBlock(s, l)
      [] l.pc = "updateHeist" -> UpdateHeistBlock(s, l)

\* The next block of request l on store s.
Step(s, l) ==
    CASE l.pc = "catch" -> CatchBlock(s, l)
      [] l.kind \in TownKinds -> TownStep(s, l)
      [] l.pc = "getPlayer" /\ l.kind \in {"buy", "sell"} -> GetPlayerBlock(s, l)
      [] l.pc = "createBuilding" -> CreateBuildingBlock(s, l)
      [] l.pc = "createTelemetryEvent" /\ l.kind = "place" -> PlaceTelemetryBlock(s, l)
      [] l.pc = "respond" /\ l.kind = "place" -> PlaceRespondBlock(s, l)
      [] l.pc = "getBuilding" -> GetBuildingBlock(s, l)
      [] l.pc = "getPlayer" /\ l.kind = "collect" -> CollectGetPlayerBlock(s, l)
      [] l.pc = "updatePlayer" /\ l.kind = "collect" -> CollectUpdatePlayerBlock(s, l)
      [] l.pc = "updateBuilding" -> UpdateBuildingBlock(s, l)
      [] l.pc = "respond" /\ l.kind = "collect" -> CollectRespondBlock(s, l)
      [] l.pc = "getShopItem" -> GetShopItemBlock(s, l)
      [] l.pc = "getInventoryItem" -> GetInventoryItemBlock(s, l)
      [] l.pc = "updatePlayer" /\ l.kind = "buy" -> BuyUpdatePlayerBlock(s, l)
      [] l.pc = "updatePlayer" /\ l.kind = "sell" -> SellUpdatePlayerBlock(s, l)
      [] l.pc = "updateShopItem" -> UpdateShopItemBlock(s, l)
      [] l.pc = "updateInventory" -> UpdateInventoryBlock(s, l)
      [] l.pc = "updateInventoryWrite" -> UpdateInventoryWriteBlock(s, l)
      [] l.pc = "createTransaction" -> CreateTransactionBlock(s, l)
      [] l.pc = "createTelemetryEvent" /\ l.kind = "buy" -> CreateTelemetryEventBlock(s, l)
      [] l.pc = "respond" /\ l.kind \in {"buy", "sell"} -> RespondBlock(s, l)

\* A handler run from its first line to its response with no other request
\* in between.
RECURSIVE Run(_, _)
Run(s, l) ==
    IF l.pc = "done" THEN [storage |-> s, req |-> l]
    ELSE LET n == Step(s, l) IN Run(n.storage, n.req)

(* ------------------------------- actions ------------------------------ *)

IdleSlots == [r \in Slots |-> IdleRequest]

\* No request is between its first line and its response.
Quiescent == \A r \in Slots : req[r].pc \in {"idle", "done"}

\* The slots whose request is between its first line and its response.
InFlight == {r \in Slots : req[r].pc \notin {"idle", "done"}}

Init ==
    /\ storage = NewMemStorage
    /\ req = IdleSlots
    /\ base = NewMemStorage
    /\ faults = 0
    /\ successes = 0

\* The requests in flight have had company.
Disturbed == [o \in Slots |-> [req[o] EXCEPT !.alone = FALSE]]

\* The frame after a block that led from the store as it is to n.
Ran(n) == [n.req EXCEPT !.wrote = @ \/ n.storage # storage]

\* A handler that makes one storage call leaves the store as s.  With no
\* request in flight the history starts afresh; the requests in flight go on
\* and are no longer alone.
Call(s) ==
    /\ storage' = s
    /\ IF Quiescent
       THEN req' = IdleSlots /\ base' = s
       ELSE req' = Disturbed /\ base' = base
    /\ UNCHANGED <<faults, successes>>

\* POST /api/players: storage.createPlayer(validatedData)
CreatePlayer(p) ==
    /\ p \notin DOMAIN storage.players
    /\ Call(createPlayer(storage, p))

\* PATCH /api/players/:id with the body { coins }:
\* storage.updatePlayer(req.params.id, req.body); the 404 of a missing player
\* leaves the store as it is.
PatchPlayer(p, coins) ==
    /\ Call(updatePlayer(storage, p, Units(coins)))

\* A request with frame l arrives in slot r and runs its first block, the
\* one that ends in its first storage call.  With no request in flight it
\* starts a group in slot 1: base keeps the store as the group found it.
\* With a request in flight it joins the group, when company allows it; a
\* slot serves one request per group.
Receive(r, l, company) ==
    /\ l.failAt # NoFault => faults < MaxFaults
    /\ IF Quiescent
       THEN /\ r = 1
            /\ base' = storage
            /\ \E n \in {Step(storage, l)} :
                  /\ storage' = n.storage
                  /\ req' = [IdleSlots EXCEPT ![r] = Ran(n)]
       ELSE /\ company
            /\ req[r].pc = "idle"
            /\ base' = base
            /\ \E n \in {Step(storage, [l EXCEPT !.alone = FALSE])} :
                  /\ storage' = n.storage
                  /\ req' = [Disturbed EXCEPT ![r] = Ran(n)]
    /\ faults' = IF l.failAt = NoFault THEN faults ELSE faults + 1
    /\ UNCHANGED successes

\* The bound on overlap: a request with body (i, q) may join the requests in
\* flight while the log holds fewer than cap records, when its body and
\* theirs are among bodies.
Company(bodies, cap, i, q) ==
    /\ Len(storage.transactions) < cap
    /\ <<i, q>> \in bodies
    /\ \A o \in InFlight : <<req[o].itemId, req[o].quantity>> \in bodies

\* The request in slot r runs the next block of its frame l.
Proceed(r, l) ==
    /\ \E n \in {Step(storage, l)} :
          /\ storage' = n.storage
          /\ req' = [req EXCEPT ![r] = Ran(n)]
          /\ successes' = IF n.req.pc = "done" /\ n.req.response.kind = "Success"
                           THEN successes + 1 ELSE successes
    /\ UNCHANGED <<base, faults>>

\* The request in slot r runs its next block.
Advance(r) == Proceed(r, req[r])

\* The catch clause of the request in slot r answers 500.
Catch(r) == req[r].pc = "catch" /\ Advance(r)

GetShopItem(r) == req[r].pc = "getShopItem" /\ Advance(r)

GetInventoryItem(r) == req[r].pc = "getInventoryItem" /\ Advance(r)

BuyUpdatePlayer(r) ==
    req[r].pc = "updatePlayer" /\ req[r].kind = "buy" /\ Advance(r)

SellUpdatePlayer(r) ==
    req[r].pc = "updatePlayer" /\ req[r].kind = "sell" /\ Advance(r)

UpdateShopItem(r) == req[r].pc = "updateShopItem" /\ Advance(r)

UpdateInventory(r) == req[r].pc = "updateInventory" /\ Advance(r)

UpdateInventoryWrite(r) == req[r].pc = "updateInventoryWrite" /\ Advance(r)

CreateTransaction(r) == req[r].pc = "createTransaction" /\ Advance(r)

CreateTelemetryEvent(r) ==
    req[r].pc = "createTelemetryEvent" /\ req[r].kind = "buy" /\ Advance(r)

SendResponse(r) ==
    req[r].pc = "respond" /\ req[r].kind \in {"buy", "sell"} /\ Advance(r)

\* POST /api/shop/buy arrives
Buy(r, p, i, q) ==
    /\ Len(storage.transactions) < MaxTrades
    /\ Receive(r, NewRequest("buy", p, i, q, NoFault),
               Company(OverlapBodies, MaxOverlapTrades, i, q))

\* POST /api/shop/sell arrives
Sell(r, p, i, q) ==
    /\ Len(storage.transactions) < MaxTrades
    /\ Receive(r, NewRequest("sell", p, i, q, NoFault),
               Company(OverlapBodies, MaxOverlapTrades, i, q))

Next ==
    \/ \E p \in PlayerIds : CreatePlayer(p)
    \/ \E r \in Slots, t \in Trades : Buy(r, t[1], t[2], t[3])
    \/ \E r \in Slots, t \in Trades : Sell(r, t[1], t[2], t[3])
    \/ \E r \in Slots : GetShopItem(r)
    \/ \E r \in Slots : GetInventoryItem(r)
    \/ \E r \in Slots : BuyUpdatePlayer(r)
    \/ \E r \in Slots : SellUpdatePlayer(r)
    \/ \E r \in Slots : UpdateShopItem(r)
    \/ \E r \in Slots : UpdateInventory(r)
    \/ \E r \in Slots : UpdateInventoryWrite(r)
    \/ \E r \in Slots : CreateTransaction(r)
    \/ \E r \in Slots : CreateTelemetryEvent(r)
    \/ \E r \in Slots : SendResponse(r)

\* Buy and sell requests from the seeded catalog, every storage call
\* succeeding; requests run block by block and may overlap at their awaits.
Spec == Init /\ [][Next]_vars

\* POST /api/shop/buy arrives; storage call f will reject (or none will)
BuyFault(r, p, i, q, f) ==
    /\ Len(storage.transactions) < MaxFaultTrades
    /\ Receive(r, NewRequest("buy", p, i, q, f),
               Company(OverlapBodies, MaxOverlapTrades, i, q))

\* POST /api/shop/sell arrives; storage call f will reject (or none will)
SellFault(r, p, i, q, f) ==
    /\ Len(storage.transactions) < MaxFaultTrades
    /\ Receive(r, NewRequest("sell", p, i, q, f),
               Company(OverlapBodies, MaxOverlapTrades, i, q))

FaultNext ==
    \/ \E p \in PlayerIds : CreatePlayer(p)
    \/ \E r \in Slots, p \in PlayerIds, b \in FaultBodies,
          f \in Calls \cup {NoFault} : BuyFault(r, p, b[1], b[2], f)
    \/ \E r \in Slots, p \in PlayerIds, b \in FaultBodies,
          f \in Calls \cup {NoFault} : SellFault(r, p, b[1], b[2], f)
    \/ \E r \in Slots : GetShopItem(r)
    \/ \E r \in Slots : GetInventoryItem(r)
    \/ \E r \in Slots : BuyUpdatePlayer(r)
    \/ \E r \in Slots : SellUpdatePlayer(r)
    \/ \E r \in Slots : UpdateShopItem(r)
    \/ \E r \in Slots : UpdateInventory(r)
    \/ \E r \in Slots : UpdateInventoryWrite(r)
    \/ \E r \in Slots : CreateTransaction(r)
    \/ \E r \in Slots : CreateTelemetryEvent(r)
    \/ \E r \in Slots : SendResponse(r)
    \/ \E r \in Slots : Catch(r)

\* Buy and sell requests whose storage calls may reject.
FaultSpec == Init /\ [][FaultNext]_vars

(* --------------------------- overlapping requests --------------------- *)

\* A buy or sell request arrives in slot r, whatever is in flight.
Arrive(r, kind, p, i, q) ==
    /\ Len(storage.transactions) < MaxConcTrades
    /\ Receive(r, NewRequest(kind, p, i, q, NoFault), TRUE)

ConcNext ==
    \/ \E p \in PlayerIds : CreatePlayer(p)
    \/ \E r \in Slots, kind \in {"buy", "sell"}, p \in PlayerIds, b \in ConcBodies :
          Arrive(r, kind, p, b[1], b[2])
    \/ \E r \in Slots : GetShopItem(r)
    \/ \E r \in Slots : GetInventoryItem(r)
    \/ \E r \in Slots : BuyUpdatePlayer(r)
    \/ \E r \in Slots : SellUpdatePlayer(r)
    \/ \E r \in Slots : UpdateShopItem(r)
    \/ \E r \in Slots : UpdateInventory(r)
    \/ \E r \in Slots : UpdateInventoryWrite(r)
    \/ \E r \in Slots : CreateTransaction(r)
    \/ \E r \in Slots : CreateTelemetryEvent(r)
    \/ \E r \in Slots : SendResponse(r)

\* Requests overlap at their awaits, every storage call succeeding.
ConcSpec == Init /\ [][ConcNext]_vars

\* The store after the requests of slots a and b run one after the other on
\* store s, a first.
Serial(s, a, b) ==
    Run(Run(s, NewRequest(req[a].kind, req[a].playerId, req[a].itemId,
                          req[a].quantity, NoFault)).storage,
        NewRequest(req[b].kind, req[b].playerId, req[b].itemId,
                   req[b].quantity, NoFault)).storage

(* ------------------------- answered requests -------------------------- *)

\* Slots whose request has been answered.
Answered == {r \in Slots : req[r].pc = "done"}

\* Slots whose request has been answered and ran with nothing else between
\* its arrival and its response: base is the store as it found it.
Alone == {r \in Answered : req[r].alone}

Succeeded(r) == req[r].response.kind = "Success"

\* The business-rule rejections of buy and sell.
Rejections ==
    {"NotFound", "MarketFrozen", "InsufficientFunds", "InsufficientStock",
     "InsufficientInventory"}

\* The request's player and item were in the store when it arrived.
Known(r) ==
    /\ req[r].playerId \in DOMAIN base.players
    /\ req[r].itemId \in DOMAIN base.shopItems

\* e = Math.floor(n / d) for d > 0, stated without division.
IsFloorOf(e, n, d) == d * e <= n /\ n < d * (e + 1)

(* ------------------------------- claims ------------------------------- *)

\* A claim that compares the store after a request with the store before
\* it is stated of the requests of Alone, for which base is that store;
\* what requests in flight together do to each other is the subject of C7,
\* C16, C17, C20 and C24.

\* C1 (price floor): in every state reached by buy and sell requests from
\* the seeded catalog, every item's currentPrice is at least half its
\* basePrice.
C1_PriceFloor ==
    \A i \in ItemIds :
        2 * storage.shopItems[i].currentPrice >= storage.shopItems[i].basePrice

\* A trade whose stepped price lies below the floor has been applied, and
\* the item sits exactly on the floor.
C1_Witness ==
    \E r \in Alone :
        /\ Succeeded(r)
        /\ LET old == base.shopItems[req[r].itemId]
               new == storage.shopItems[req[r].itemId]
               step == 2 * (req[r].quantity \div 10)
           IN  /\ 2 * (old.currentPrice
                       + (IF req[r].kind = "buy" THEN step ELSE -step))
                    < old.basePrice
               /\ 2 * new.currentPrice = new.basePrice

\* C2 (volatility derivation), as claimed, for a positive quantity: after a
\* successful trade the stored priceVolatility is
\* (currentPrice - basePrice) / basePrice of the item's new currentPrice.
C2_VolatilityOfNewPrice ==
    \A r \in Alone :
        (Succeeded(r) /\ req[r].quantity > 0) =>
            LET new == storage.shopItems[req[r].itemId]
            IN  new.priceVolatility.num * new.basePrice
                    = (new.currentPrice - new.basePrice) * new.priceVolatility.den

\* C3 (circuit breaker): a buy by an existing player that finds an existing
\* item with |priceVolatility| > 0.25 is answered MarketFrozen and writes
\* nothing, whatever the quantity and the balance, also when other requests
\* are in flight; when nothing else ran between its arrival and its
\* response, the store is as it was.  This holds of every buy for as long
\* as the stored volatility is outside the band.
C3_CircuitBreaker ==
    /\ \A r \in Answered :
          (/\ req[r].kind = "buy"
           /\ req[r].player # Undefined
           /\ req[r].item # Undefined
           /\ LET v == req[r].item.priceVolatility
              IN  4 * v.num > v.den \/ 4 * v.num < -v.den)
          => /\ req[r].response.kind = "MarketFrozen"
             /\ ~req[r].wrote
    /\ \A r \in Alone :
          (/\ req[r].kind = "buy"
           /\ Known(r)
           /\ LET v == base.shopItems[req[r].itemId].priceVolatility
              IN  4 * v.num > v.den \/ 4 * v.num < -v.den)
          => /\ req[r].response.kind = "MarketFrozen"
             /\ storage = base

\* A buy the player could afford was refused on a frozen item.
C3_Witness ==
    \E r \in Alone :
        /\ req[r].kind = "buy"
        /\ req[r].response.kind = "MarketFrozen"
        /\ req[r].quantity > 0
        /\ base.players[req[r].playerId].coins
              >= base.shopItems[req[r].itemId].currentPrice * req[r].quantity

\* C4 (atomicity of rejection): a buy or sell answered with a business-rule
\* rejection has written nothing (all validation precedes the first write),
\* also when other requests are in flight; when nothing else ran between its
\* arrival and its response, coins, items, inventory, the transaction log
\* and the telemetry log are exactly as the request found them.
C4_RejectionAtomic ==
    /\ \A r \in Answered :
          (req[r].kind \in {"buy", "sell"} /\ req[r].response.kind \in Rejections)
          => ~req[r].wrote
    /\ \A r \in Alone :
          req[r].response.kind \in Rejections => storage = base

\* A sell was refused for lack of inventory after trades had been applied.
C4_Witness ==
    \E r \in Alone :
        /\ req[r].response.kind = "InsufficientInventory"
        /\ Len(base.transactions) > 0
        /\ storage = base

\* C5 (coin conservation): a successful buy of q at pre-trade price p takes
\* exactly p*q from the buyer and reports p*q; a successful sell gives the
\* seller exactly floor(p*q*0.8) and reports it (of a request that ran
\* alone).
C5_CoinConservation ==
    \A r \in Alone :
        Succeeded(r) =>
            LET p == base.shopItems[req[r].itemId].currentPrice
                q == req[r].quantity
                before == base.players[req[r].playerId].coins
                after == storage.players[req[r].playerId].coins
                amount == req[r].response.amount
            IN  IF req[r].kind = "buy"
                THEN after = before - p * q /\ amount = p * q
                ELSE /\ after = before + amount
                     /\ amount % 2 = 0
                     \* amount / 2 = floor((p / 2) * q * 4 / 5)
                     /\ IsFloorOf(amount \div 2, 4 * p * q, 10)

\* A sell whose revenue p*q*0.8 is not whole has been paid.
C5_Witness ==
    \E r \in Alone :
        /\ Succeeded(r)
        /\ req[r].kind = "sell"
        /\ req[r].quantity > 0
        /\ (4 * base.shopItems[req[r].itemId].currentPrice * req[r].quantity)
              % 10 # 0

\* C6 (invalid quantity), as claimed, for a player and an item that exist:
\* a request with quantity <= 0 is answered InvalidQuantity and changes
\* nothing.
C6_InvalidQuantityRejected ==
    \A r \in Alone :
        (Known(r) /\ req[r].quantity <= 0)
        => /\ req[r].response.kind = "InvalidQuantity"
           /\ storage = base

\* C7 (serializability), as claimed: when two requests on the same item or
\* by the same player have overlapped and both are answered, and no player
\* was created meanwhile, the store is the one that running them one after
\* the other, in one of the two orders, gives.
C7_Serializable ==
    (/\ \A r \in Slots : req[r].pc = "done"
     /\ DOMAIN storage.players = DOMAIN base.players
     /\ \/ req[1].itemId = req[2].itemId
        \/ req[1].playerId = req[2].playerId)
    => storage \in {Serial(base, 1, 2), Serial(base, 2, 1)}

\* C8 (no partial application), as claimed: when updatePlayer,
\* updateShopItem, updateInventory or createTransaction rejects, the trade is
\* answered as failed and the store is as the request found it.
C8_NoPartialApplication ==
    \A r \in Alone :
        (/\ req[r].failAt \in {"updatePlayer", "updateShopItem",
                               "updateInventory", "createTransaction"}
         /\ req[r].response.kind = "InternalError")
        => storage = base

\* C9 (telemetry is best-effort), as claimed: a buy that has applied its
\* debit, item update, inventory increment and transaction record, and whose
\* createTelemetryEvent then rejects, is answered as a success with the
\* amount spent.
C9_TelemetryBestEffort ==
    \A r \in Alone :
        (/\ req[r].kind = "buy"
         /\ req[r].failAt = "createTelemetryEvent"
         /\ Len(storage.transactions) = Len(base.transactions) + 1)
        => /\ req[r].response.kind = "Success"
           /\ req[r].response.amount
                 = base.shopItems[req[r].itemId].currentPrice * req[r].quantity

\* C10 (price step): a successful buy of q sets currentPrice to
\* max(basePrice*0.5, p + floor(q/10)), a successful sell to
\* max(basePrice*0.5, p - floor(q/10)), p the pre-trade price; nothing
\* clamps the price from above, and a trade of 0..9 units leaves it as it
\* was (of a request that ran alone).
C10_PriceStep ==
    \A r \in Alone :
        Succeeded(r) =>
            LET old == base.shopItems[req[r].itemId]
                new == storage.shopItems[req[r].itemId]
                q == req[r].quantity
                \* floor(q / 10) in half-coins
                step == CHOOSE e \in -2 * 100 .. 2 * 100 :
                            e % 2 = 0 /\ IsFloorOf(e \div 2, q, 10)
                stepped == IF req[r].kind = "buy"
                           THEN old.currentPrice + step
                           ELSE old.currentPrice - step
            IN  /\ new.currentPrice
                     = (IF 2 * stepped >= old.basePrice
                        THEN stepped ELSE old.basePrice \div 2)
                /\ (0 <= q /\ q < 10) => new.currentPrice = old.currentPrice

\* A buy of at least 10 units has raised the price above the basePrice, and
\* a trade of fewer than 10 units has left it there.
C10_Witness ==
    \E r \in Alone :
        /\ Succeeded(r)
        /\ req[r].quantity > 0 /\ req[r].quantity < 10
        /\ LET old == base.shopItems[req[r].itemId]
               new == storage.shopItems[req[r].itemId]
           IN  /\ new.currentPrice = old.currentPrice
               /\ old.currentPrice > Units(12)
               /\ req[r].itemId = "Apple"

\* C11 (stock update), as claimed: a successful buy of q lowers the item's
\* stock by exactly q and a successful sell of q raises it by exactly q; a
\* buy of an existing item by an existing player with q above the stock is
\* answered InsufficientStock (of a request that ran alone).
C11_StockUpdateAsClaimed ==
    \A r \in Alone :
        Known(r) =>
            LET old == base.shopItems[req[r].itemId]
                new == storage.shopItems[req[r].itemId]
                q == req[r].quantity
            IN  /\ (Succeeded(r) /\ req[r].kind = "buy")
                       => new.stock = old.stock - q
                /\ (Succeeded(r) /\ req[r].kind = "sell")
                       => new.stock = old.stock + q
                /\ (req[r].kind = "buy" /\ q > old.stock)
                       => req[r].response.kind = "InsufficientStock"

\* C11 (stock update), amended: a successful buy of q lowers the item's
\* stock by exactly q and a successful sell of q raises it by exactly q; a
\* buy of an existing item by an existing player with q above the stock
\* never succeeds and changes nothing, and it is answered MarketFrozen when
\* the item is frozen, else InsufficientFunds when the player cannot pay,
\* and InsufficientStock only when it passes these two checks, which the
\* handler makes first (of a request that ran alone).
C11_StockUpdate ==
    \A r \in Alone :
        Known(r) =>
            LET old == base.shopItems[req[r].itemId]
                new == storage.shopItems[req[r].itemId]
                q == req[r].quantity
                frozen == \/ 4 * old.priceVolatility.num > old.priceVolatility.den
                          \/ 4 * old.priceVolatility.num < -old.priceVolatility.den
                funds == base.players[req[r].playerId].coins
                            >= old.currentPrice * q
            IN  /\ (Succeeded(r) /\ req[r].kind = "buy")
                       => new.stock = old.stock - q
                /\ (Succeeded(r) /\ req[r].kind = "sell")
                       => new.stock = old.stock + q
                /\ (req[r].kind = "buy" /\ q > old.stock)
                       => /\ storage = base
                          /\ req[r].response.kind =
                                (IF frozen THEN "MarketFrozen"
                                 ELSE IF ~funds THEN "InsufficientFunds"
                                 ELSE "InsufficientStock")

\* A buy of more units than the shop holds was refused for lack of stock,
\* after trades that had moved the stock.
C11_Witness ==
    \E r \in Alone :
        /\ req[r].kind = "buy"
        /\ req[r].response.kind = "InsufficientStock"
        /\ req[r].quantity > base.shopItems[req[r].itemId].stock
        /\ base.shopItems[req[r].itemId].stock
              # DefaultItems[req[r].itemId].stock

\* C12 (sell availability), as claimed: a sell by an existing player of an
\* existing item is answered InsufficientInventory and changes nothing, both
\* when the player has no inventory row of the item and when the row holds
\* less than the quantity to sell.
C12_SellAvailabilityAsClaimed ==
    \A r \in Alone :
        (/\ req[r].kind = "sell"
         /\ Known(r)
         /\ LET held == getInventoryItem(base, req[r].playerId, req[r].itemId)
            IN  held = Undefined \/ held.quantity < req[r].quantity)
        => /\ req[r].response.kind = "InsufficientInventory"
           /\ storage = base

\* C13 (sell is not subject to the circuit breaker): a sell by an existing
\* player who holds at least q units of an existing item succeeds and
\* credits the coins, raises the stock, lowers the held quantity and appends
\* its transaction record, whatever the item's priceVolatility, when it ran
\* alone; no sell is answered MarketFrozen, alone or not.
C13_SellNotFrozen ==
    \A r \in Answered :
        req[r].kind = "sell" =>
            /\ req[r].response.kind # "MarketFrozen"
            /\ LET held == getInventoryItem(base, req[r].playerId, req[r].itemId)
                   q == req[r].quantity
               IN  (req[r].alone /\ Known(r) /\ held # Undefined
                       /\ held.quantity >= q)
                   => /\ Succeeded(r)
                      /\ storage.players[req[r].playerId].coins
                            = base.players[req[r].playerId].coins
                                + req[r].response.amount
                      /\ storage.shopItems[req[r].itemId].stock
                            = base.shopItems[req[r].itemId].stock + q
                      /\ storage.inventory[held.id].quantity = held.quantity - q
                      /\ Len(storage.transactions) = Len(base.transactions) + 1

\* A player sold units of an item whose stored volatility was outside the
\* band, and was paid.
C13_Witness ==
    \E r \in Alone :
        /\ req[r].kind = "sell"
        /\ Succeeded(r)
        /\ req[r].quantity > 0
        /\ req[r].response.amount > 0
        /\ LET v == base.shopItems[req[r].itemId].priceVolatility
           IN  4 * v.num > v.den \/ 4 * v.num < -v.den

\* C14 (transaction log): a successful buy or sell appends exactly one
\* record, with the request's player, item, direction and quantity and the
\* item's currentPrice as it was before the trade; a request that is not
\* answered with success leaves the log as it was; the records already in
\* the log stay as they are (of a request that ran alone); in every state
\* the log is as long as the number of trades answered with success plus the
\* number of trades in flight that have written their record and not yet
\* answered.
C14_TransactionLog ==
    /\ Len(storage.transactions)
          = successes
              + Cardinality({r \in InFlight :
                                req[r].pc \in {"createTelemetryEvent", "respond"}})
    /\ \A r \in Alone :
          IF Succeeded(r)
          THEN storage.transactions
                 = Append(base.transactions,
                          [playerId |-> req[r].playerId,
                           itemId |-> req[r].itemId,
                           type |-> req[r].kind,
                           quantity |-> req[r].quantity,
                           price |-> base.shopItems[req[r].itemId].currentPrice])
          ELSE storage.transactions = base.transactions

\* A trade that moved the price was recorded after earlier records.
C14_Witness ==
    \E r \in Alone :
        /\ Succeeded(r)
        /\ Len(base.transactions) >= 1
        /\ storage.shopItems[req[r].itemId].currentPrice
              # base.shopItems[req[r].itemId].currentPrice
        /\ Len(storage.transactions) = Len(base.transactions) + 1

(* ------------------------- scenario B of the spec --------------------- *)

\* Cap on the log length of the scenario's runs.
MaxScenarioTrades == 8

ScenarioItemId == "item"

ScenarioPlayers == {"p1"}

\* The quantities of the scenario's buys: the scenario's 50, and a quantity
\* below the price step.
ScenarioQuantities == {50, 5}

ScenarioOverlapBodies == {<<ScenarioItemId, 5>>}

\* The coins a PATCH /api/players/:id sets: too few for any buy, and enough
\* for every buy of a run.
PatchCoins == {5, 100000}

\* The store of scenario B before its players are created: an item with
\* basePrice 100, currentPrice 100 and volatility 0 (storage.createShopItem)
\* whose stock covers every buy of the run.
ScenarioStorage ==
    [NewMemStorage EXCEPT
        !.shopItems =
            [i \in {ScenarioItemId} |->
                [name |-> "item", category |-> "resource",
                 basePrice |-> Units(100), currentPrice |-> Units(100),
                 stock |-> 1000, priceVolatility |-> Ratio(0, 100)]]]

ScenarioInit ==
    /\ storage = ScenarioStorage
    /\ req = IdleSlots
    /\ base = ScenarioStorage
    /\ faults = 0
    /\ successes = 0

\* POST /api/shop/buy of the scenario's item arrives
ScenarioBuy(r, p, q) ==
    /\ Len(storage.transactions) < MaxScenarioTrades
    /\ Receive(r, NewRequest("buy", p, ScenarioItemId, q, NoFault),
               Company(ScenarioOverlapBodies, MaxOverlapTrades, ScenarioItemId, q))

ScenarioNext ==
    \/ \E p \in ScenarioPlayers : CreatePlayer(p)
    \/ \E p \in ScenarioPlayers, coins \in PatchCoins : PatchPlayer(p, coins)
    \/ \E r \in Slots, p \in ScenarioPlayers, q \in ScenarioQuantities :
          ScenarioBuy(r, p, q)
    \/ \E r \in Slots : GetShopItem(r)
    \/ \E r \in Slots : BuyUpdatePlayer(r)
    \/ \E r \in Slots : UpdateShopItem(r)
    \/ \E r \in Slots : UpdateInventory(r)
    \/ \E r \in Slots : UpdateInventoryWrite(r)
    \/ \E r \in Slots : CreateTransaction(r)
    \/ \E r \in Slots : CreateTelemetryEvent(r)
    \/ \E r \in Slots : SendResponse(r)

\* Buys of the scenario's item from the scenario's store, by players whose
\* coins are patched.
ScenarioSpec == ScenarioInit /\ [][ScenarioNext]_vars

\* C15 (scenario B), as claimed: when buys of 50 have been repeated from
\* currentPrice 100 until currentPrice exceeds 125 (every one of them made at
\* a price of at most 125), the very next buy attempt is answered
\* MarketFrozen.
C15_ScenarioB ==
    \A r \in Alone :
        (/\ req[r].kind = "buy"
         /\ base.shopItems[ScenarioItemId].currentPrice > Units(125)
         /\ \A k \in 1..Len(base.transactions) :
               /\ base.transactions[k].type = "buy"
               /\ base.transactions[k].quantity = 50
               /\ base.transactions[k].price <= Units(125))
        => req[r].response.kind = "MarketFrozen"

(* ------------------- trades overlapping with collect ------------------ *)

\* Ids a created building can get, the levels it is created with, and the
\* request bodies of the trades that overlap with collect.
BuildingIds == {"b1"}

Levels == {1, 2}

CollectBodies == {<<"Apple", 3>>}

\* Cap on the log length of these runs, and the coins above which a player
\* stops the collect requests from arriving.
MaxCollectTrades == 1

MaxCollectCoins == 1200

\* POST /api/buildings arrives in slot r and runs its first block
\* (createBuilding, under a fresh id).
CreateBuilding(r, b, p, level) ==
    /\ b \notin DOMAIN storage.buildings
    /\ Receive(r, NewPlaceRequest(b, p, level), TRUE)

PlaceTelemetry(r) ==
    req[r].pc = "createTelemetryEvent" /\ req[r].kind = "place" /\ Advance(r)

PlaceRespond(r) == req[r].pc = "respond" /\ req[r].kind = "place" /\ Advance(r)

\* A collect request arrives in slot r and runs its first block
\* (getBuilding), for a building collected before or not, or for an id that
\* is no building's; the handler pays whenever it is called.
ArriveCollect(r, b) ==
    /\ \A p \in DOMAIN storage.players :
          storage.players[p].coins <= Units(MaxCollectCoins)
    /\ Receive(r, NewCollectRequest(b), TRUE)

\* A buy or sell request arrives in slot r, whatever is in flight.
CollectTrade(r, kind, p, i, q) ==
    /\ Len(storage.transactions) < MaxCollectTrades
    /\ Receive(r, NewRequest(kind, p, i, q, NoFault), TRUE)

CollectGetPlayer(r) ==
    req[r].pc = "getPlayer" /\ req[r].kind = "collect" /\ Advance(r)

CollectUpdatePlayer(r) ==
    req[r].pc = "updatePlayer" /\ req[r].kind = "collect" /\ Advance(r)

UpdateBuilding(r) == req[r].pc = "updateBuilding" /\ Advance(r)

CollectRespond(r) ==
    req[r].pc = "respond" /\ req[r].kind = "collect" /\ Advance(r)

CollectNext ==
    \/ \E p \in PlayerIds : CreatePlayer(p)
    \/ \E r \in Slots, b \in BuildingIds, p \in PlayerIds, level \in Levels :
          CreateBuilding(r, b, p, level)
    \/ \E r \in Slots : PlaceTelemetry(r)
    \/ \E r \in Slots : PlaceRespond(r)
    \/ \E r \in Slots, b \in BuildingIds : ArriveCollect(r, b)
    \/ \E r \in Slots, kind \in {"buy", "sell"}, p \in PlayerIds,
          b \in CollectBodies : CollectTrade(r, kind, p, b[1], b[2])
    \/ \E r \in Slots : CollectGetPlayer(r)
    \/ \E r \in Slots : CollectUpdatePlayer(r)
    \/ \E r \in Slots : UpdateBuilding(r)
    \/ \E r \in Slots : CollectRespond(r)
    \/ \E r \in Slots : GetShopItem(r)
    \/ \E r \in Slots : GetInventoryItem(r)
    \/ \E r \in Slots : BuyUpdatePlayer(r)
    \/ \E r \in Slots : SellUpdatePlayer(r)
    \/ \E r \in Slots : UpdateShopItem(r)
    \/ \E r \in Slots : UpdateInventory(r)
    \/ \E r \in Slots : UpdateInventoryWrite(r)
    \/ \E r \in Slots : CreateTransaction(r)
    \/ \E r \in Slots : CreateTelemetryEvent(r)
    \/ \E r \in Slots : SendResponse(r)

\* Trades and collect requests overlap at their awaits, every storage call
\* succeeding.
CollectSpec == Init /\ [][CollectNext]_vars

\* C16 (no lost balance update across flows), as claimed: when a trade by a
\* player and a collect that credits the same player have overlapped and
\* both are answered with success, the player's coins are the coins before
\* the two requests, plus the reward, minus the cost of the buy (or plus the
\* revenue of the sell).
C16_NoLostBalanceUpdate ==
    \A t \in Answered, c \in Answered :
        (/\ req[t].kind \in {"buy", "sell"}
         /\ Succeeded(t)
         /\ req[c].kind = "collect"
         /\ req[c].response.kind = "Collected"
         /\ req[c].playerId = req[t].playerId
         /\ req[t].playerId \in DOMAIN base.players)
        => storage.players[req[t].playerId].coins
             = base.players[req[t].playerId].coins
                 + req[c].response.amount
                 + (IF req[t].kind = "buy"
                    THEN -req[t].response.amount
                    ELSE req[t].response.amount)

\* C17 (inventory entry uniqueness), as claimed: in every reachable state,
\* also when first-time buys of one (playerId, itemId) pair have overlapped,
\* the inventory holds at most one row per pair.
C17_InventoryUnique ==
    \A k \in 1..Len(storage.inventory) :
        InventoryMatches(storage, storage.inventory[k].playerId,
                         storage.inventory[k].itemId) = {k}

\* C18 (non-negative balance), as claimed: in every state reached by buy and
\* sell requests from players created with 1000 coins, every player's coins
\* are >= 0; and a buy of an existing item that is not frozen, by an
\* existing player whose coins are below the total cost, is answered
\* InsufficientFunds and changes nothing.
C18_NonNegativeBalance ==
    /\ \A p \in DOMAIN storage.players : storage.players[p].coins >= 0
    /\ \A r \in Alone :
          (/\ req[r].kind = "buy"
           /\ Known(r)
           /\ LET v == base.shopItems[req[r].itemId].priceVolatility
              IN  4 * v.num <= v.den /\ 4 * v.num >= -v.den
           /\ base.players[req[r].playerId].coins
                 < base.shopItems[req[r].itemId].currentPrice * req[r].quantity)
          => /\ req[r].response.kind = "InsufficientFunds"
             /\ storage = base

(* ----------------------- listing the transactions --------------------- *)

\* Caps on the log length and on the clock of the listing's runs.
MaxLogLen == 3

MaxTimestamp == 3

\* limit: number = 100
DefaultLimit == 100

\* The limits a listing is called with (DefaultLimit: the argument left out).
Limits == {0, 1, 2, DefaultLimit}

\* createTransaction with the record's timestamp: new Date() has read
\* timestamp off the clock.
createTransactionAt(s, playerId, itemId, type, quantity, price, timestamp) ==
    [s EXCEPT !.transactions =
        Append(@, [playerId |-> playerId, itemId |-> itemId, type |-> type,
                   quantity |-> quantity, price |-> price,
                   timestamp |-> timestamp])]

\* Mutant: the limit is applied before the sort.
getTransactionsByPlayer_SliceFirst(s, playerId, limit) ==
    LET Mine(t) == t.playerId = playerId
    IN  [storage |-> s,
         result |-> SortNewestFirst(Slice(SelectSeq(s.transactions, Mine), limit))]

\* getTransactionsByPlayer: filter (SelectSeq), sort, slice; filter has
\* copied the array, the stored one is not sorted.
getTransactionsByPlayer(s, playerId, limit) ==
    LET Mine(t) == t.playerId = playerId
    IN  [storage |-> s,
         result |-> Slice(SortNewestFirst(SelectSeq(s.transactions, Mine)), limit)]

\* The frame of a call of getTransactionsByPlayer.
NewListRequest(playerId, limit) ==
    [IdleRequest EXCEPT !.kind = "list", !.playerId = playerId,
                        !.limit = limit]

\* A trade of player p writes its record, new Date() reading timestamp off
\* the wall clock, which may have been set back since the last record.
RecordTransaction(p, type, timestamp) ==
    /\ Len(storage.transactions) < MaxLogLen
    /\ storage' = createTransactionAt(storage, p, "Apple", type, 3, Units(12),
                                      timestamp)
    /\ req' = IdleSlots
    /\ base' = storage'
    /\ UNCHANGED <<faults, successes>>

\* storage.getTransactionsByPlayer(p, limit); req[1] keeps the call and what
\* it returned.
ListTransactions(p, limit) ==
    /\ \E r \in {getTransactionsByPlayer(storage, p, limit)} :
          /\ storage' = r.storage
          /\ req' = [IdleSlots EXCEPT ![1] =
                        [NewListRequest(p, limit) EXCEPT !.pc = "done",
                                                         !.response = r.result]]
    /\ base' = storage
    /\ UNCHANGED <<faults, successes>>

ListNext ==
    \/ \E p \in PlayerIds, type \in {"buy", "sell"}, timestamp \in 1..MaxTimestamp :
          RecordTransaction(p, type, timestamp)
    \/ \E p \in PlayerIds, limit \in Limits : ListTransactions(p, limit)

\* Records are written and the log is listed, one call at a time.
ListSpec == Init /\ [][ListNext]_vars

\* C19 (transaction listing): getTransactionsByPlayer(playerId, limit), for
\* a limit >= 0, returns records of the log that are all of that player,
\* each at most once, with timestamps that never increase along the result;
\* it returns min(limit, the number of the player's records) of them, and no
\* record of the player that it leaves out is newer than one it returns;
\* the stored log is as it was.
C19_TransactionListing ==
    \A r \in Answered :
        req[r].kind = "list" =>
            LET result == req[r].response
                log == base.transactions
                mine == {k \in 1..Len(log) : log[k].playerId = req[r].playerId}
                n == Len(result)
            IN  /\ storage = base
                /\ n <= req[r].limit
                /\ n = (IF Cardinality(mine) < req[r].limit
                        THEN Cardinality(mine) ELSE req[r].limit)
                /\ \A j \in 1..n : result[j].playerId = req[r].playerId
                /\ \A j \in 1..(n - 1) :
                      result[j].timestamp >= result[j + 1].timestamp
                /\ \E f \in [1..n -> mine] :
                      /\ \A i, j \in 1..n : f[i] = f[j] => i = j
                      /\ \A j \in 1..n : log[f[j]] = result[j]
                      /\ \A k \in mine \ {f[j] : j \in 1..n} :
                            \A j \in 1..n :
                                result[j].timestamp >= log[k].timestamp

\* A listing with limit 2 of a log whose three records, all of the player,
\* were stored neither oldest-first nor newest-first (the clock was set back
\* before the third was written) returned the two newest, the newer first.
C19_Witness ==
    \E r \in Answered :
        /\ req[r].kind = "list"
        /\ req[r].limit = 2
        /\ LET log == base.transactions
           IN  /\ Len(log) = 3
               /\ \A k \in 1..3 : log[k].playerId = req[r].playerId
               /\ log[1].timestamp < log[2].timestamp
               /\ log[3].timestamp < log[1].timestamp
               /\ req[r].response = <<log[2], log[1]>>

\* C20 (non-negative inventory), as claimed: in every reachable state, also
\* when sells of one player and item have overlapped after each passed the
\* held-quantity check, every inventory row's quantity is >= 0.
C20_NonNegativeInventory ==
    \A k \in 1..Len(storage.inventory) : storage.inventory[k].quantity >= 0

\* C21 (buy validation order): a buy is answered with the first that applies
\* of NotFound (the player or the item is missing), MarketFrozen
\* (|priceVolatility| > 0.25), InsufficientFunds (coins below the cost),
\* InsufficientStock (stock below the quantity), and with success when none
\* applies; a frozen item answers MarketFrozen also when the coins or the
\* stock are too low (of a request that ran alone: the store it found
\* decides).
C21_BuyValidationOrder ==
    \A r \in Alone :
        req[r].kind = "buy" =>
            IF ~Known(r) THEN req[r].response.kind = "NotFound"
            ELSE LET item == base.shopItems[req[r].itemId]
                     coins == base.players[req[r].playerId].coins
                     q == req[r].quantity
                     v == item.priceVolatility
                 IN  IF 4 * v.num > v.den \/ 4 * v.num < -v.den
                     THEN req[r].response.kind = "MarketFrozen"
                     ELSE IF coins < item.currentPrice * q
                     THEN req[r].response.kind = "InsufficientFunds"
                     ELSE IF item.stock < q
                     THEN req[r].response.kind = "InsufficientStock"
                     ELSE req[r].response.kind = "Success"

\* A buy that the player could not pay, of more units than the shop held,
\* on a frozen item, was answered MarketFrozen.
C21_Witness ==
    \E r \in Alone :
        /\ req[r].kind = "buy"
        /\ Known(r)
        /\ req[r].response.kind = "MarketFrozen"
        /\ base.players[req[r].playerId].coins
              < base.shopItems[req[r].itemId].currentPrice * req[r].quantity
        /\ base.shopItems[req[r].itemId].stock < req[r].quantity

\* C22 (integer price), as claimed: in every reachable state every item's
\* currentPrice is a positive integer (a positive even number of
\* half-coins), also for an item with an odd basePrice whose price has been
\* driven down to the floor.
C22_IntegerPrice ==
    \A i \in ItemIds :
        /\ storage.shopItems[i].currentPrice > 0
        /\ storage.shopItems[i].currentPrice % Units(1) = 0

\* s is a prefix of t.
IsPrefix(s, t) == Len(s) <= Len(t) /\ SubSeq(t, 1, Len(s)) = s

\* C23 (frame of a trade): a buy or sell by player P on item I leaves the
\* set of items and of players as it was, every item other than I and I's
\* basePrice, name and category as they were, every player other than P as
\* it was, every inventory row of another pair as it was (rows it adds are
\* of the pair (P, I)), the buildings as they were, and only appends to the
\* transaction and telemetry logs (of a request that ran alone).
C23_TradeFrame ==
    \A r \in Alone :
        req[r].kind \in {"buy", "sell"} =>
            LET P == req[r].playerId
                I == req[r].itemId
            IN  /\ DOMAIN storage.shopItems = DOMAIN base.shopItems
                /\ \A i \in DOMAIN base.shopItems :
                      IF i = I
                      THEN /\ storage.shopItems[i].basePrice
                                = base.shopItems[i].basePrice
                           /\ storage.shopItems[i].name = base.shopItems[i].name
                           /\ storage.shopItems[i].category
                                = base.shopItems[i].category
                      ELSE storage.shopItems[i] = base.shopItems[i]
                /\ DOMAIN storage.players = DOMAIN base.players
                /\ \A p \in DOMAIN base.players \ {P} :
                      storage.players[p] = base.players[p]
                /\ Len(storage.inventory) >= Len(base.inventory)
                /\ \A k \in 1..Len(storage.inventory) :
                      \/ /\ storage.inventory[k].playerId = P
                         /\ storage.inventory[k].itemId = I
                      \/ /\ k <= Len(base.inventory)
                         /\ storage.inventory[k] = base.inventory[k]
                /\ \A k \in 1..Len(base.inventory) :
                      /\ storage.inventory[k].playerId = base.inventory[k].playerId
                      /\ storage.inventory[k].itemId = base.inventory[k].itemId
                /\ storage.buildings = base.buildings
                /\ IsPrefix(base.transactions, storage.transactions)
                /\ IsPrefix(base.telemetryEvents, storage.telemetryEvents)

\* A trade was applied while another player existed and held units of
\* another item.
C23_Witness ==
    \E r \in Alone :
        /\ Succeeded(r)
        /\ req[r].quantity > 0
        /\ \E k \in 1..Len(base.inventory) :
              /\ base.inventory[k].playerId # req[r].playerId
              /\ base.inventory[k].itemId # req[r].itemId
              /\ base.inventory[k].quantity > 0

\* The sum of the quantities of the inventory rows of item i among the
\* first n rows of store s.
RECURSIVE HeldUnits(_, _, _)
HeldUnits(s, i, n) ==
    IF n = 0 THEN 0
    ELSE HeldUnits(s, i, n - 1)
           + (IF s.inventory[n].itemId = i THEN s.inventory[n].quantity ELSE 0)

\* C24 (item conservation), as claimed: in every state in which no trade is
\* in flight, also after buys of one item have overlapped, each item's stock
\* plus the quantities of the item in all inventory rows is the stock the
\* catalog was seeded with.
C24_ItemConservation ==
    Quiescent =>
        \A i \in ItemIds :
            storage.shopItems[i].stock + HeldUnits(storage, i, Len(storage.inventory))
                = DefaultItems[i].stock

(* ------------- the routes around the trades, and the clock ------------ *)

\* Caps on the length of the telemetry log and of the transaction log, and
\* on the clock, of the runs that take every route that writes the players,
\* the heists, the microgames or the telemetry log.
MaxTownEvents == 2

MaxTownTrades == 2

MaxTownTime == 2

TownPlayers == {"p1"}

TownBodies == {<<"Apple", 3>>, <<"Apple", 20>>}

\* Ids a created microgame and a created heist can get, the id of a puzzle
\* or policy in a request, the reward a heist is created with, and the
\* bodies of PATCH /api/heists/:id.
GameIds == {"g"}

HeistIds == {"h"}

OtherIds == {"x"}

HeistRewards == {500}

HeistPatches == {[reward |-> Units(1000)], [leaderId |-> "p2"]}

\* The updates storage.updateMicrogame is called with.
MicrogamePatches == {[plays |-> QuarantinePlays]}

\* The bodies of PATCH /api/buildings/:id.
BuildingPatches ==
    {[level |-> 50], [playerId |-> "p2"], [lastCollectedAt |-> "null"]}

\* Collect requests arrive while no player holds more than this many coins.
MaxTownCoins == 1200

\* The request in slot r runs its next block, new Date() reading t off the
\* wall clock, which may have been set back since the last reading.
TownAdvance(r, t) ==
    /\ req[r].pc \notin {"idle", "done"}
    /\ Proceed(r, [req[r] EXCEPT !.now = t])

\* A request arrives and runs its first block; it may join the requests in
\* flight while the telemetry log holds fewer than MaxOverlapTrades events.
TownReceive(r, l) ==
    /\ Len(storage.telemetryEvents) < MaxTownEvents
    /\ Receive(r, l, Len(storage.telemetryEvents) < MaxOverlapTrades)

\* POST /api/shop/buy arrives
TownBuy(r, p, i, q) ==
    /\ Len(storage.transactions) < MaxTownTrades
    /\ TownReceive(r, NewRequest("buy", p, i, q, NoFault))

\* POST /api/buildings arrives (a body the schema accepts, a fresh id)
TownCreateBuilding(r, b, p, level) ==
    /\ b \notin DOMAIN storage.buildings
    /\ TownReceive(r, NewPlaceRequest(b, p, level))

\* PATCH /api/buildings/:id: storage.updateBuilding(req.params.id, req.body);
\* the 404 of a missing building leaves the store as it is.
PatchBuilding(b, updates) ==
    /\ Call(updateBuilding(storage, b, updates))

\* POST /api/buildings/:id/collect arrives; the handler pays whenever it is
\* called.
TownCollect(r, b) ==
    /\ \A p \in DOMAIN storage.players :
          storage.players[p].coins <= Units(MaxTownCoins)
    /\ TownReceive(r, NewCollectRequest(b))

\* POST /api/microgames arrives (a body the schema accepts)
CreateMicrogame(r, g, p) ==
    /\ g \notin DOMAIN storage.microgames
    /\ TownReceive(r, NewTownRequest("createMicrogame", g, p, "createMicrogame"))

\* POST /api/microgames/:id/play arrives
PlayMicrogame(r, g, p) ==
    /\ TownReceive(r, NewTownRequest("play", g, p, "getMicrogame"))

\* storage.updateMicrogame(g, updates), the store's public method that
\* writes any column of a microgame's row.
UpdateMicrogame(g, updates) ==
    /\ Call(updateMicrogame(storage, g, updates))

\* POST /api/microgames/:id/share arrives
ShareMicrogame(r, g, p) ==
    /\ TownReceive(r, NewTownRequest("share", g, p, "incrementMicrogameShares"))

\* POST /api/puzzles arrives (a body the schema accepts)
CreatePuzzle(r, x, p) ==
    /\ TownReceive(r, NewTownRequest("createPuzzle", x, p, "createPuzzle"))

\* POST /api/puzzles/:id/complete arrives
CompletePuzzle(r, x, p) ==
    /\ TownReceive(r, NewTownRequest("completePuzzle", x, p, "completePuzzle"))

\* POST /api/governance/mayor arrives
ElectMayor(r, p) ==
    /\ TownReceive(r, NewTownRequest("mayor", "", p, "updateGovernance"))

\* POST /api/policies/:id/vote arrives
VoteOnPolicy(r, x, p, vote) ==
    /\ TownReceive(r, [NewTownRequest("vote", x, p, "voteOnPolicy")
                          EXCEPT !.success = vote])

\* POST /api/heists arrives (a body the schema accepts)
CreateHeist(r, h, p, reward) ==
    /\ h \notin DOMAIN storage.heists
    /\ TownReceive(r, [NewTownRequest("createHeist", h, p, "createHeist")
                          EXCEPT !.reward = Units(reward)])

\* POST /api/heists/:id/complete arrives with the body { success }
CompleteHeist(r, h, success) ==
    /\ TownReceive(r, [NewTownRequest("completeHeist", h, "", "getHeist")
                          EXCEPT !.success = success])

\* PATCH /api/heists/:id: storage.updateHeist(req.params.id, req.body); the
\* 404 of a missing heist leaves the store as it is.
PatchHeist(h, updates) ==
    /\ Call(updateHeist(storage, h, updates))

\* GET /api/telemetry/stats and GET /api/telemetry/export:
\* const events = await storage.getTelemetryEvents()
ReadTelemetry ==
    /\ Call(getTelemetryEvents(storage, "", TelemetryLimit).storage)

TownNext ==
    \/ \E p \in TownPlayers : CreatePlayer(p)
    \/ \E r \in Slots, p \in TownPlayers, b \in TownBodies : TownBuy(r, p, b[1], b[2])
    \/ \E r \in Slots, b \in BuildingIds, p \in TownPlayers, level \in Levels :
          TownCreateBuilding(r, b, p, level)
    \/ \E b \in BuildingIds, updates \in BuildingPatches : PatchBuilding(b, updates)
    \/ \E r \in Slots, b \in BuildingIds : TownCollect(r, b)
    \/ \E r \in Slots, g \in GameIds, p \in TownPlayers : CreateMicrogame(r, g, p)
    \/ \E r \in Slots, g \in GameIds, p \in TownPlayers : PlayMicrogame(r, g, p)
    \/ \E g \in GameIds, updates \in MicrogamePatches : UpdateMicrogame(g, updates)
    \/ \E r \in Slots, g \in GameIds, p \in TownPlayers : ShareMicrogame(r, g, p)
    \/ \E r \in Slots, x \in OtherIds, p \in TownPlayers : CreatePuzzle(r, x, p)
    \/ \E r \in Slots, x \in OtherIds, p \in TownPlayers : CompletePuzzle(r, x, p)
    \/ \E r \in Slots, p \in TownPlayers : ElectMayor(r, p)
    \/ \E r \in Slots, x \in OtherIds, p \in TownPlayers, vote \in BOOLEAN :
          VoteOnPolicy(r, x, p, vote)
    \/ \E r \in Slots, h \in HeistIds, p \in TownPlayers, reward \in HeistRewards :
          CreateHeist(r, h, p, reward)
    \/ \E r \in Slots, h \in HeistIds, success \in BOOLEAN : CompleteHeist(r, h, success)
    \/ \E h \in HeistIds, updates \in HeistPatches : PatchHeist(h, updates)
    \/ ReadTelemetry
    \/ \E r \in Slots, t \in 1..MaxTownTime : TownAdvance(r, t)

\* The routes that write the players, the heists, the microgames or the
\* telemetry log, overlapping at their awaits, the clock read at every
\* block; reading the telemetry log sorts it.
TownSpec == Init /\ [][TownNext]_vars

(* ------------------------- buy, then sell back ------------------------ *)

\* Cap on the log length, and the request bodies, of the runs in which a
\* player buys and sells back: quantities below, at and above the price
\* step, up to a quarter of the seeded stock.
MaxTripTrades == 2

TripBodies ==
    {<<"Apple", 5>>, <<"Apple", 10>>, <<"Apple", 20>>, <<"Apple", 40>>,
     <<"Apple", 50>>, <<"Stone", 5>>, <<"Stone", 10>>, <<"Stone", 13>>}

TripOverlapBodies == {<<"Apple", 5>>}

TripPlayers == {"p1"}

\* POST /api/shop/buy arrives
TripBuy(r, p, i, q) ==
    /\ Len(storage.transactions) < MaxTripTrades
    /\ Receive(r, NewRequest("buy", p, i, q, NoFault),
               Company(TripOverlapBodies, MaxOverlapTrades, i, q))

\* POST /api/shop/sell arrives
TripSell(r, p, i, q) ==
    /\ Len(storage.transactions) < MaxTripTrades
    /\ Receive(r, NewRequest("sell", p, i, q, NoFault),
               Company(TripOverlapBodies, MaxOverlapTrades, i, q))

TripNext ==
    \/ \E p \in TripPlayers : CreatePlayer(p)
    \/ \E p \in TripPlayers, coins \in PatchCoins : PatchPlayer(p, coins)
    \/ \E r \in Slots, p \in TripPlayers, b \in TripBodies : TripBuy(r, p, b[1], b[2])
    \/ \E r \in Slots, p \in TripPlayers, b \in TripBodies : TripSell(r, p, b[1], b[2])
    \/ \E r \in Slots : GetShopItem(r)
    \/ \E r \in Slots : GetInventoryItem(r)
    \/ \E r \in Slots : BuyUpdatePlayer(r)
    \/ \E r \in Slots : SellUpdatePlayer(r)
    \/ \E r \in Slots : UpdateShopItem(r)
    \/ \E r \in Slots : UpdateInventory(r)
    \/ \E r \in Slots : UpdateInventoryWrite(r)
    \/ \E r \in Slots : CreateTransaction(r)
    \/ \E r \in Slots : CreateTelemetryEvent(r)
    \/ \E r \in Slots : SendResponse(r)

\* Buys and sells of positive quantities from the seeded catalog, by
\* players whose coins may be patched.
TripSpec == Init /\ [][TripNext]_vars

\* C25 (no round-trip profit), as claimed: when a player has bought q > 0
\* units of an item and the next trade is the same player's successful sell
\* of the same q units, the player's coins after the sell are no more than
\* they were before the buy (the coins before the sell plus the buy's
\* recorded price times q).
C25_NoRoundTripProfit ==
    \A r \in Alone :
        (/\ req[r].kind = "sell"
         /\ Succeeded(r)
         /\ req[r].quantity > 0
         /\ Len(base.transactions) > 0
         /\ LET bought == base.transactions[Len(base.transactions)]
            IN  /\ bought.type = "buy"
                /\ bought.playerId = req[r].playerId
                /\ bought.itemId = req[r].itemId
                /\ bought.quantity = req[r].quantity)
        => LET bought == base.transactions[Len(base.transactions)]
           IN  storage.players[req[r].playerId].coins
                 <= base.players[req[r].playerId].coins
                      + bought.price * bought.quantity

====
